---- MODULE Spec2Model ----
(***************************************************************************)
(* Model of the Geocat hdf4 -> netCDF4 converter (convert.py,              *)
(* constants.py): the dimension resolver determine_dimensions, the         *)
(* metadata rewriter compliance_cleanup, the sink writer                   *)
(* write_netCDF4_file and the batch orchestrator hdf4_2_netcdf4.           *)
(*                                                                         *)
(* Variable names are sequences of tokens, the pieces of the Python name   *)
(* between underscores: "pixel_latitude" is <<"pixel", "latitude">>.       *)
(* re.match is modelled on tokens (ReMatch).  Python's None is modelled    *)
(* as None (-1) where the other values are integers and as NoneInfo for a  *)
(* catalog.  An exception that nothing catches ends hdf4_2_netcdf4 at      *)
(* pc = "raised".  Spec is a batch given to hdf4_2_netcdf4; SpecDD is a    *)
(* call of determine_dimensions on a catalog; SpecCC is a call of          *)
(* compliance_cleanup on a catalog.                                        *)
(***************************************************************************)
EXTENDS Integers, Sequences, FiniteSets, TLC

VARIABLES
    files_list,       \* the batch: one descriptor per input file (what is on disk)
    keys_order,       \* iteration order of the dictionaries of constants.py
    fs,               \* the output directory: stem -> state of <stem>.nc
    pc,               \* position in hdf4_2_netcdf4 (or in a direct call, "dd", "cc")
    idx,              \* index in files_list of the file being converted
    code_to_return,
    in_file_object,   \* handle on the source, or None
    out_file_object,  \* handle on the sink, or None
    in_file_info,     \* the catalog returned by read_hdf4_info, or NoneInfo
    open_handles,     \* handles opened and not released
    next_handle,      \* the next handle the libraries give out
    dd_result,        \* what determine_dimensions returned (or raised)
    raised,           \* the exception that left hdf4_2_netcdf4, or "none"
    log               \* history: <<file index, event>> in order of occurrence

vars == <<files_list, keys_order, fs, pc, idx, code_to_return, in_file_object,
          out_file_object, in_file_info, open_handles, next_handle, dd_result,
          raised, log>>

----------------------------------------------------------------------------
(* Bounds of the model *)

MaxVars == 2      \* variables per catalog given directly to determine_dimensions
MaxFiles == 2     \* files per batch

----------------------------------------------------------------------------
(* constants.py *)

LINES_DIM_NAME == "lines"
ELEMS_DIM_NAME == "elements"
DETECTOR_DIM_NAME == "detector"
CHANNEL_IDX_DIM_NAME == "channel_index"
QF_DEPTH_DIM_NAME == "qf_depth"
PACKED_BYTES_1_DIM_NAME == "bytes_cloud_mask_packed"
PACKED_BYTES_2_DIM_NAME == "bytes_cloud_type_packed"
TEMP_DIM_NAME == "temp_dim_"

\* Python's None where the other values are integers: a dimension size ("None
\* for unlimited dimensions"), lines_num and elements_num before they are set,
\* a file object that was not opened.
None == -1

\* A regular expression of constants.py on tokens: pre is a leading ".*?_", toks
\* the literal text, more a trailing "_.*?"; chan marks the channel patterns
\* "(.+?)_channel_(\d+?)_<toks>".
Pat(pre, toks, more) == [pre |-> pre, toks |-> toks, more |-> more, chan |-> FALSE]

ChanPat(toks) == [pre |-> TRUE, toks |-> toks, more |-> FALSE, chan |-> TRUE]

SPECIAL_VARIABLES ==
    << [pattern |-> Pat(TRUE, <<"planck">>, FALSE),
        sizes |-> <<None, None>>,
        names |-> <<DETECTOR_DIM_NAME, CHANNEL_IDX_DIM_NAME>>],
       [pattern |-> Pat(FALSE, <<"calibration">>, TRUE),
        sizes |-> <<None, None>>,
        names |-> <<DETECTOR_DIM_NAME, CHANNEL_IDX_DIM_NAME>>],
       [pattern |-> Pat(TRUE, <<"wavenumber">>, FALSE),
        sizes |-> <<None, None>>,
        names |-> <<DETECTOR_DIM_NAME, CHANNEL_IDX_DIM_NAME>>],
       [pattern |-> Pat(FALSE, <<"scan", "line", "time">>, FALSE),
        sizes |-> <<None>>,
        names |-> <<LINES_DIM_NAME>>],
       [pattern |-> Pat(TRUE, <<"quality", "flags1">>, FALSE),
        sizes |-> <<None, None, 3>>,
        names |-> <<LINES_DIM_NAME, ELEMS_DIM_NAME, QF_DEPTH_DIM_NAME>>],
       [pattern |-> Pat(TRUE, <<"cloud", "mask", "packed">>, FALSE),
        sizes |-> <<None, None, 7>>,
        names |-> <<LINES_DIM_NAME, ELEMS_DIM_NAME, PACKED_BYTES_1_DIM_NAME>>],
       [pattern |-> Pat(TRUE, <<"cloud", "type", "packed">>, FALSE),
        sizes |-> <<None, None, 6>>,
        names |-> <<LINES_DIM_NAME, ELEMS_DIM_NAME, PACKED_BYTES_2_DIM_NAME>>] >>

----------------------------------------------------------------------------
(* Helpers for Python dictionaries and lists *)

Put(d, k, v) == [x \in DOMAIN d \cup {k} |-> IF x = k THEN v ELSE d[x]]

Del(d, k) == [x \in DOMAIN d \ {k} |-> d[x]]

EmptyDict == [x \in {} |-> 0]

Reverse(s) == [i \in 1..Len(s) |-> s[Len(s) + 1 - i]]

\* dict.keys() of a table of constants.py: the order is the interpreter's; two
\* orders are modelled, the one of the source text and its reverse.
KeysOf(table, order) == IF order = "declared" THEN table ELSE Reverse(table)

\* re.match(pattern, name): the pattern must match at the start of the name; a
\* leading ".*?_" lets the literal start at any later token, a trailing "_.*?"
\* needs one more underscore after the literal.
LiteralAt(p, name, i) ==
    LET n == Len(p.toks)
    IN  /\ i + n - 1 <= Len(name)
        /\ \A k \in 1..n : name[i + k - 1] = p.toks[k]
        /\ (p.more => Len(name) >= i + n)

\* Tokens that \d+? matches.
DigitTokens ==
    {"0", "1", "2", "3", "4", "5", "6", "7", "8", "9", "10", "11", "12", "13",
     "14", "15", "16"}

\* Where "channel" stands in a name that a channel pattern matches.
ChannelAt(p, name, i) ==
    /\ i + 1 <= Len(name)
    /\ name[i] = "channel"
    /\ name[i + 1] \in DigitTokens
    /\ LiteralAt(p, name, i + 2)

ReMatch(p, name) ==
    IF p.chan THEN \E i \in 2..Len(name) : ChannelAt(p, name, i)
    ELSE IF p.pre THEN \E i \in 2..Len(name) : LiteralAt(p, name, i)
    ELSE LiteralAt(p, name, 1)

\* temp_match.group(1) and group(2) of a channel pattern: the lazy (.+?) takes
\* the shortest instrument name.
MatchGroups(p, name) ==
    LET i == CHOOSE i \in 2..Len(name) :
                 /\ ChannelAt(p, name, i)
                 /\ \A j \in 2..(i - 1) : ~ChannelAt(p, name, j)
    IN  [group1 |-> SubSeq(name, 1, i - 1), group2 |-> name[i + 1]]

----------------------------------------------------------------------------
(* determine_dimensions *)

\* The locals of determine_dimensions at its start (lines 147-155).
DDStart ==
    [dimensions |-> EmptyDict,
     variable_dim_info |-> EmptyDict,
     vars_to_process_last |-> <<>>,
     elements_num |-> None,
     lines_num |-> None,
     temp_dim_index_counter |-> 1,
     raised |-> "none"]

\* CheckElements without the comparison of lines 196-200: every variable whose
\* lines agree is taken as a raster.
CheckElements_NoCompare(var_name, shape_temp, st) ==
    IF st.elements_num = None
    THEN [st EXCEPT !.elements_num = shape_temp[2],
                    !.dimensions = Put(@, ELEMS_DIM_NAME, shape_temp[2]),
                    !.variable_dim_info =
                        Put(@, var_name, <<LINES_DIM_NAME, ELEMS_DIM_NAME>>)]
    ELSE [st EXCEPT !.variable_dim_info =
                        Put(@, var_name, <<LINES_DIM_NAME, ELEMS_DIM_NAME>>)]

\* Lines 189-204: the variable's first axis was accepted as lines.
CheckElements(var_name, shape_temp, st) ==
    IF st.elements_num = None
    THEN [st EXCEPT !.elements_num = shape_temp[2],
                    !.dimensions = Put(@, ELEMS_DIM_NAME, shape_temp[2]),
                    !.variable_dim_info =
                        Put(@, var_name, <<LINES_DIM_NAME, ELEMS_DIM_NAME>>)]
    ELSE IF st.elements_num # shape_temp[2]
    THEN [st EXCEPT !.vars_to_process_last = Append(@, var_name)]
    ELSE [st EXCEPT !.variable_dim_info =
                        Put(@, var_name, <<LINES_DIM_NAME, ELEMS_DIM_NAME>>)]

\* Lines 172-208: a variable that matched no special pattern.
ClassifyRegular(var_name, shape_temp, st) ==
    IF Len(shape_temp) = 2
    THEN IF st.lines_num = None
         THEN CheckElements(var_name, shape_temp,
                  [st EXCEPT !.lines_num = shape_temp[1],
                             !.dimensions = Put(@, LINES_DIM_NAME, shape_temp[1])])
         ELSE IF st.lines_num # shape_temp[1]
         THEN [st EXCEPT !.vars_to_process_last = Append(@, var_name)]
         ELSE CheckElements(var_name, shape_temp, st)
    ELSE [st EXCEPT !.vars_to_process_last = Append(@, var_name)]

\* Lines 156-208, one iteration of the first loop.  The inner loop appends the
\* variable once for every special pattern it matches.
FirstPassVar(info, var_name, st) ==
    LET hits == {i \in 1..Len(SPECIAL_VARIABLES) :
                    ReMatch(SPECIAL_VARIABLES[i].pattern, var_name)}
    IN  IF hits # {}
        THEN [st EXCEPT !.vars_to_process_last =
                            @ \o [k \in 1..Cardinality(hits) |-> var_name]]
        ELSE ClassifyRegular(var_name, info.variable_info[var_name].shape, st)

RECURSIVE FirstPass(_, _, _)
FirstPass(info, i, st) ==
    IF i > Len(info.variable_list) THEN st
    ELSE FirstPass(info, i + 1, FirstPassVar(info, info.variable_list[i], st))

\* Lines 250-258: register or check the dimensions of one variable, axis by axis.
\* "is" on the small integers of the rule table is equality.
RECURSIVE RegisterDims(_, _, _, _)
RegisterDims(expected_dims_names, expected_dims_size, temp_index, st) ==
    IF temp_index > Len(expected_dims_names) \/ st.raised # "none" THEN st
    ELSE LET dim_name == expected_dims_names[temp_index]
             dim_size == expected_dims_size[temp_index]
         IN  IF dim_name \in DOMAIN st.dimensions
             THEN IF dim_size = st.dimensions[dim_name] \/ dim_size = None
                  THEN RegisterDims(expected_dims_names, expected_dims_size,
                                    temp_index + 1, st)
                  ELSE [st EXCEPT !.raised = "AssertionError"]
             ELSE RegisterDims(expected_dims_names, expected_dims_size,
                               temp_index + 1,
                               [st EXCEPT !.dimensions = Put(@, dim_name, dim_size)])

\* Lines 230-247: temporary dimension names for a variable no rule describes.
\* TEMP_DIM_NAME + temp_dim_index_counter adds an int to a str: the first axis
\* raises TypeError; a variable without axes gets the empty tuples.
TempDims(shape_temp, st) ==
    IF Len(shape_temp) > 0
    THEN [names |-> <<>>, sizes |-> <<>>, raised |-> "TypeError"]
    ELSE [names |-> <<>>, sizes |-> <<>>, raised |-> "none"]

\* Lines 212-260, one iteration of the second loop.  Every matching pattern
\* overwrites expected_dims_*: the last match in iteration order stays.
SecondPassVar(info, order, var_name, st) ==
    LET keys == KeysOf(SPECIAL_VARIABLES, order)
        hits == {i \in 1..Len(keys) : ReMatch(keys[i].pattern, var_name)}
        last == CHOOSE i \in hits : \A j \in hits : j <= i
        temp == TempDims(info.variable_info[var_name].shape, st)
        expected_dims_names == IF hits = {} THEN temp.names ELSE keys[last].names
        expected_dims_size == IF hits = {} THEN temp.sizes ELSE keys[last].sizes
    IN  IF hits = {} /\ temp.raised # "none"
        THEN [st EXCEPT !.raised = temp.raised]
        ELSE LET st1 == RegisterDims(expected_dims_names, expected_dims_size, 1, st)
             IN  IF st1.raised # "none" THEN st1
                 ELSE [st1 EXCEPT !.variable_dim_info =
                                      Put(@, var_name, expected_dims_names)]

RECURSIVE SecondPass(_, _, _, _)
SecondPass(info, order, i, st) ==
    IF i > Len(st.vars_to_process_last) \/ st.raised # "none" THEN st
    ELSE SecondPass(info, order, i + 1,
                    SecondPassVar(info, order, st.vars_to_process_last[i], st))

\* determine_dimensions(in_file_info): the locals at the return statement, or at
\* the raise when raised # "none".  The function returns (dimensions,
\* variable_dim_info).
determine_dimensions(info, order) ==
    SecondPass(info, order, 1, FirstPass(info, 1, DDStart))

----------------------------------------------------------------------------
(* Attribute values and the tables of constants.py *)

\* An attribute value: a string, a number, a list of numbers, a list of
\* strings, a string of characters built at run time (chars), or a template
\* with its "%" arguments (fmt).  Floats are modelled by integers.
Str(x) == [kind |-> "str", s |-> x, n |-> 0, l |-> <<>>, sl |-> <<>>]

Num(i) == [kind |-> "num", s |-> "", n |-> i, l |-> <<>>, sl |-> <<>>]

List(l) == [kind |-> "list", s |-> "", n |-> 0, l |-> l, sl |-> <<>>]

Strs(sl) == [kind |-> "strs", s |-> "", n |-> 0, l |-> <<>>, sl |-> sl]

Chars(sl) == [kind |-> "chars", s |-> "", n |-> 0, l |-> <<>>, sl |-> sl]

Fmt(template, args) == [kind |-> "fmt", s |-> template, n |-> 0, l |-> <<>>, sl |-> args]

FILL_VALUE_KEY == "_FillValue"
IMAGE_DATE_ATTR_NAME == "Image_Date"
IMAGE_TIME_ATTR_NAME == "Image_Time"
IMAGE_DATETIME_ATTR_NAME == "Image_Date_Time"
LIB_VERSION_ATTR_NAME == "Output_Library_Version"
SCAN_LINE_TIME_VAR_NAME == <<"scan", "line", "time">>
VARS_TO_DELETE == <<SCAN_LINE_TIME_VAR_NAME>>
BAD_UNITS_SET == {"no units", "none"}
CONVERT_ATTRS_MAP == [k \in {"mWm-2sr-1(cm-1)-1"} |-> "mW m-2 sr-1 (cm-1)-1"]
LONG_NAME_ATTR_NAME == "long_name"
VALID_MIN_ATTR_NAME == "valid_min"
VALID_MAX_ATTR_NAME == "valid_max"
VALID_RANGE_ATTR_NAME == "valid_range"
FLAG_VALS_ATTR_NAME == "flag_values"
FLAG_MEANINGS_ATTR_NAME == "flag_meanings"
CH_REFL_VAR_PATTERN == ChanPat(<<"reflectance">>)
CH_EMIS_VAR_PATTERN == ChanPat(<<"emissivity">>)
CH_BT_VAR_PATTERN == ChanPat(<<"brightness", "temperature">>)
CHANNEL_DATA_PATTERNS == {CH_REFL_VAR_PATTERN, CH_EMIS_VAR_PATTERN, CH_BT_VAR_PATTERN}
SHORT_RANGE_DEFAULT == <<-32768, 32767>>

LONG_NAME_MAP ==
    << [pattern |-> Pat(FALSE, <<"bc1", "planck">>, FALSE),
        long_name |-> "calibration coefficients 'a', for each channel"],
       [pattern |-> Pat(FALSE, <<"bc2", "planck">>, FALSE),
        long_name |-> "calibration coefficients 'b', for each channel"],
       [pattern |-> Pat(FALSE, <<"calibration", "offset">>, FALSE),
        long_name |-> "calibration constant offset"],
       [pattern |-> Pat(FALSE, <<"calibration", "slope">>, FALSE),
        long_name |-> "calibration constant slope"],
       [pattern |-> Pat(FALSE, <<"calibration", "slope", "degrade">>, FALSE),
        long_name |-> "calibration constant slope degrade"],
       [pattern |-> Pat(FALSE, <<"calibration", "solar", "constant">>, FALSE),
        long_name |-> "calibration constant solar constant"],
       [pattern |-> Pat(FALSE, <<"channel", "wavenumber">>, FALSE),
        long_name |-> "instrument-specific wavenumbers, for each channel"],
       [pattern |-> Pat(FALSE, <<"fk1", "planck">>, FALSE),
        long_name |-> "planck constant 1"],
       [pattern |-> Pat(FALSE, <<"fk2", "planck">>, FALSE),
        long_name |-> "planck constant 2"],
       [pattern |-> CH_REFL_VAR_PATTERN,
        long_name |-> "pixel-resolution array of reflectances for channel %s from %s"],
       [pattern |-> CH_EMIS_VAR_PATTERN,
        long_name |-> "pixel-resolution array of emissivities for channel %s from %s"],
       [pattern |-> CH_BT_VAR_PATTERN,
        long_name |-> "pixel-resolution array of brightness temperatures for channel %s from %s"],
       [pattern |-> Pat(FALSE, <<"pixel", "ecosystem", "type">>, FALSE),
        long_name |-> "pixel-resolution array of ecosystem types, from a static ancillary file."],
       [pattern |-> Pat(FALSE, <<"pixel", "latitude">>, FALSE),
        long_name |-> "pixel-resolution array of latitudes"],
       [pattern |-> Pat(FALSE, <<"pixel", "longitude">>, FALSE),
        long_name |-> "pixel-resolution array of longitudes"],
       [pattern |-> Pat(FALSE, <<"pixel", "relative", "azimuth", "angle">>, FALSE),
        long_name |-> "pixel-resolution array of relative azimuth angles"],
       [pattern |-> Pat(FALSE, <<"pixel", "satellite", "zenith", "angle">>, FALSE),
        long_name |-> "pixel-resolution array of satellite zenith angles"],
       [pattern |-> Pat(FALSE, <<"pixel", "solar", "zenith", "angle">>, FALSE),
        long_name |-> "pixel-resolution array of solar zenith angles"],
       [pattern |-> Pat(FALSE, <<"pixel", "surface", "type">>, FALSE),
        long_name |-> "pixel-resolution array of surface types, from a static ancillary file."],
       [pattern |-> Pat(FALSE, <<"nwp", "x", "index">>, FALSE),
        long_name |-> "the x indices into the NWP data array that correspond with each pixel, or fill values if NWP data was not read in"],
       [pattern |-> Pat(FALSE, <<"nwp", "y", "index">>, FALSE),
        long_name |-> "the y indices into the NWP data array that correspond with each pixel, or fill values if NWP data was not read in"] >>

RANGE_LIMS_MAP ==
    << [pattern |-> CH_REFL_VAR_PATTERN, range |-> <<-32767, 32767>>],
       [pattern |-> CH_BT_VAR_PATTERN, range |-> <<-32767, 32767>>],
       [pattern |-> Pat(FALSE, <<"pixel", "ecosystem", "type">>, FALSE), range |-> <<0, 100>>],
       [pattern |-> Pat(FALSE, <<"pixel", "relative", "azimuth", "angle">>, FALSE), range |-> <<-32767, 32767>>],
       [pattern |-> Pat(FALSE, <<"pixel", "satellite", "zenith", "angle">>, FALSE), range |-> <<-32767, 32767>>],
       [pattern |-> Pat(FALSE, <<"pixel", "solar", "zenith", "angle">>, FALSE), range |-> <<-32767, 32767>>],
       [pattern |-> Pat(FALSE, <<"pixel", "surface", "type">>, FALSE), range |-> <<0, 13>>] >>

FLAG_INFO_MAP ==
    << [pattern |-> Pat(FALSE, <<"pixel", "ecosystem", "type">>, FALSE),
        flag_values |->
          <<0, 1, 2, 3, 4, 5, 6, 7, 8, 9, 10, 11, 12, 13, 14, 15, 16, 17, 
            18, 19, 20, 21, 22, 23, 24, 25, 26, 27, 28, 29, 30, 31, 32, 33, 
            34, 35, 36, 37, 38, 39, 40, 41, 42, 43, 44, 45, 46, 47, 48, 49, 
            50, 51, 52, 53, 54, 55, 56, 57, 58, 59, 60, 61, 62, 63, 64, 65, 
            66, 67, 68, 69, 70, 71, 72, 73, 74, 75, 76, 77, 78, 79, 80, 81, 
            82, 83, 84, 85, 86, 87, 88, 89, 90, 91, 92, 93, 94, 95, 96, 
            100>>,
        flag_meanings |->
          <<"INTERRUPTED_AREAS_ECO", "URBAN_ECO", 
            "LOW_SPARSE_GRASSLAND_ECO", "CONIFEROUS_FOREST_ECO", 
            "DECIDUOUS_CONIFER_FOREST_ECO", 
            "DECIDUOUS_BROADLEAF_FOREST1_ECO", 
            "EVERGREEN_BROADLEAF_FORESTS_ECO", 
            "TALL_GRASSES_AND_SHRUBS_ECO", "BARE_DESERT_ECO", 
            "UPLAND_TUNDRA_ECO", "IRRIGATED_GRASSLAND_ECO", 
            "SEMI_DESERT_ECO", "GLACIER_ICE_ECO", "WOODED_WET_SWAMP_ECO", 
            "INLAND_WATER_ECO", "SEA_WATER_ECO", "SHRUB_EVERGREEN_ECO", 
            "SHRUB_DECIDUOUS_ECO", "MIXED_FOREST_AND_FIELD_ECO", 
            "EVERGREEN_FOREST_AND_FIELDS_ECO", "COOL_RAIN_FOREST_ECO", 
            "CONIFER_BOREAL_FOREST_ECO", "COOL_CONIFER_FOREST_ECO", 
            "COOL_MIXED_FOREST_ECO", "MIXED_FOREST_ECO", 
            "COOL_BROADLEAF_FOREST_ECO", "DECIDUOUS_BROADLEAF_FOREST2_ECO", 
            "CONIFER_FOREST_ECO", "MONTANE_TROPICAL_FORESTS_ECO", 
            "SEASONAL_TROPICAL_FOREST_ECO", "COOL_CROPS_AND_TOWNS_ECO", 
            "CROPS_AND_TOWN_ECO", "DRY_TROPICAL_WOODS_ECO", 
            "TROPICAL_RAINFOREST_ECO", "TROPICAL_DEGRADED_FOREST_ECO", 
            "CORN_AND_BEANS_CROPLAND_ECO", "RICE_PADDY_AND_FIELD_ECO", 
            "HOT_IRRIGATED_CROPLAND_ECO", "COOL_IRRIGATED_CROPLAND_ECO", 
            "COLD_IRRIGATED_CROPLAND_ECO", "COOL_GRASSES_AND_SHRUBS_ECO", 
            "HOT_AND_MILD_GRASSES_AND_SHRUBS_ECO", "COLD_GRASSLAND_ECO", 
            "SAVANNA_ECO", "MIRE_BOG_FEN_ECO", "MARSH_WETLAND_ECO", 
            "MEDITERRANEAN_SCRUB_ECO", "DRY_WOODY_SCRUB_ECO", 
            "DRY_EVERGREEN_WOODS_ECO", "VOLCANIC_ROCK_ECO", 
            "SAND_DESERT_ECO", "SEMI_DESERT_SHRUBS_ECO", 
            "SEMI_DESERT_SAGE_ECO", "BARREN_TUNDRA_ECO", 
            "COOL_SOUTHERN_HEMISPHERE_MIXED_FORESTS_ECO", 
            "COOL_FIELDS_AND_WOODS_ECO", "FOREST_AND_FIELD_ECO", 
            "COOL_FOREST_AND_FIELD_ECO", "FIELDS_AND_WOODY_SAVANNA_ECO", 
            "SUCCULENT_AND_THORN_SCRUB_ECO", "SMALL_LEAF_MIXED_WOODS_ECO", 
            "DECIDUOUS_AND_MIXED_BOREAL_FOREST_ECO", "NARROW_CONIFERS_ECO", 
            "WOODED_TUNDRA_ECO", "HEATH_SCRUB_ECO", 
            "COASTAL_WETLAND_NW_ECO", "COASTAL_WETLAND_NE_ECO", 
            "COASTAL_WETLAND_SE_ECO", "COASTAL_WETLAND_SW_ECO", 
            "POLAR_AND_ALPINE_DESERT_ECO", "GLACIER_ROCK_ECO", 
            "SALT_PLAYAS_ECO", "MANGROVE_ECO", 
            "WATER_AND_ISLAND_FRINGE_ECO", "LAND_WATER_AND_SHORE_ECO", 
            "LAND_AND_WATER_RIVERS_ECO", "CROP_AND_WATER_MIXTURES_ECO", 
            "SOUTHERN_HEMISPHERE_CONIFERS_ECO", 
            "SOUTHERN_HEMISPHERE_MIXED_FOREST_ECO", 
            "WET_SCLEROPHYLIC_FOREST_ECO", "COASTLINE_FRINGE_ECO", 
            "BEACHES_AND_DUNES_ECO", "SPARSE_DUNES_AND_RIDGES_ECO", 
            "BARE_COASTAL_DUNES_ECO", "RESIDUAL_DUNES_AND_BEACHES_ECO", 
            "COMPOUND_COASTLINES_ECO", "ROCKY_CLIFFS_AND_SLOPES_ECO", 
            "SANDY_GRASSLAND_AND_SHRUBS_ECO", "BAMBOO_ECO", 
            "MOIST_EUCALYPTUS_ECO", "RAIN_GREEN_TROPICAL_FOREST_ECO", 
            "WOODY_SAVANNA_ECO", "BROADLEAF_CROPS_ECO", "GRASS_CROPS_ECO", 
            "CROPS_GRASS_SHRUBS_ECO", "EVERGREEN_TREE_CROP_ECO", 
            "DECIDUOUS_TREE_CROP_ECO", "NO_DATA_ECO">>],
       [pattern |-> Pat(FALSE, <<"pixel", "surface", "type">>, FALSE),
        flag_values |->
          <<0, 1, 2, 3, 4, 5, 6, 7, 8, 9, 10, 11, 12, 13>>,
        flag_meanings |->
          <<"WATER_SFC", "EVERGREEN_NEEDLE_SFC", "EVERGREEN_BROAD_SFC", 
            "DECIDUOUS_NEEDLE_SFC", "DECIDUOUS_BROAD_SFC", 
            "MIXED_FORESTS_SFC", "WOODLANDS_SFC", "WOODED_GRASS_SFC", 
            "CLOSED_SHRUBS_SFC", "OPEN_SHRUBS_SFC", "GRASSES_SFC", 
            "CROPLANDS_SFC", "BARE_SFC", "URBAN_SFC">>] >>

----------------------------------------------------------------------------
(* compliance_cleanup: the global attributes *)

DigitChars == <<"0", "1", "2", "3", "4", "5", "6", "7", "8", "9">>

IsDigit(ch) == \E d \in 1..10 : DigitChars[d] = ch

DigitVal(ch) == (CHOOSE d \in 1..10 : DigitChars[d] = ch) - 1

\* str(n) of an integer n >= 0, as a sequence of characters.
RECURSIVE PyStrInt(_)
PyStrInt(n) ==
    IF n < 10 THEN <<DigitChars[n + 1]>>
    ELSE Append(PyStrInt(n \div 10), DigitChars[(n % 10) + 1])

\* int(s) of a string of digits.
RECURSIVE PyInt(_)
PyInt(chars) ==
    IF Len(chars) = 0 THEN 0
    ELSE 10 * PyInt(SubSeq(chars, 1, Len(chars) - 1)) + DigitVal(chars[Len(chars)])

\* s[a:b]
Slice(chars, a, b) ==
    SubSeq(chars, a + 1, IF b < Len(chars) THEN b ELSE Len(chars))

\* s.zfill(width)
ZFill(chars, width) ==
    IF Len(chars) >= width THEN chars
    ELSE [i \in 1..(width - Len(chars)) |-> "0"] \o chars

\* str(value) of an attribute value: the digits of a number; a string
\* attribute is modelled as text that holds no digit.
PyStr(value) == IF value.kind = "num" THEN PyStrInt(value.n) ELSE <<"x">>

AllDigits(chars) == \A i \in 1..Len(chars) : IsDigit(chars[i])

IsLeap(year) == (year % 4 = 0 /\ year % 100 # 0) \/ year % 400 = 0

DaysInMonth(year, month) ==
    IF month = 2 THEN (IF IsLeap(year) THEN 29 ELSE 28)
    ELSE IF month \in {4, 6, 9, 11} THEN 30 ELSE 31

DaysInYear(year) == IF IsLeap(year) THEN 366 ELSE 365

RECURSIVE DaysBeforeMonth(_, _)
DaysBeforeMonth(year, month) ==
    IF month = 1 THEN 0
    ELSE DaysBeforeMonth(year, month - 1) + DaysInMonth(year, month - 1)

\* datetime.strptime(s, "%Y%j %H%M%S"): four digits of year, one to three
\* digits of day-of-year in 1..366, white space, two digits each of hour (0..23),
\* minute (0..59) and second (0..61); a second above 59 is refused by the
\* datetime constructor.  The date is the ordinal of January 1st plus the
\* day-of-year minus one, so day 366 of a year of 365 days is January 1st of
\* the next year.
Strptime(year_chars, day_chars, time_chars) ==
    LET julian == PyInt(day_chars)
        year == PyInt(year_chars)
        hour == PyInt(SubSeq(time_chars, 1, 2))
        minute == PyInt(SubSeq(time_chars, 3, 4))
        second == PyInt(SubSeq(time_chars, 5, 6))
        ok == /\ AllDigits(year_chars) /\ Len(year_chars) = 4
              /\ AllDigits(day_chars) /\ Len(day_chars) \in 1..3
              /\ julian \in 1..366
              /\ AllDigits(time_chars) /\ Len(time_chars) = 6
              /\ hour <= 23 /\ minute <= 59 /\ second <= 59
        y == IF julian > DaysInYear(year) THEN year + 1 ELSE year
        doy == IF julian > DaysInYear(year) THEN julian - DaysInYear(year) ELSE julian
        month == CHOOSE m \in 1..12 :
                     /\ DaysBeforeMonth(y, m) < doy
                     /\ doy <= DaysBeforeMonth(y, m) + DaysInMonth(y, m)
    IN  IF ok
        THEN [raised |-> "none", year |-> y, month |-> month,
              day |-> doy - DaysBeforeMonth(y, month),
              hour |-> hour, minute |-> minute, second |-> second]
        ELSE [raised |-> "ValueError", year |-> 0, month |-> 0, day |-> 0,
              hour |-> 0, minute |-> 0, second |-> 0]

\* datetime_obj.strftime(ISO_OUT_TIME_FORMAT), "%Y-%m-%dT%H:%M:%SZ"
Strftime(dt) ==
    ZFill(PyStrInt(dt.year), 4) \o <<"-">> \o ZFill(PyStrInt(dt.month), 2) \o <<"-">>
    \o ZFill(PyStrInt(dt.day), 2) \o <<"T">> \o ZFill(PyStrInt(dt.hour), 2) \o <<":">>
    \o ZFill(PyStrInt(dt.minute), 2) \o <<":">> \o ZFill(PyStrInt(dt.second), 2)
    \o <<"Z">>

\* Lines 311-314: the string given to strptime and its parse.  int() of the
\* first three characters raises ValueError unless they are digits.
ParseImageDateTime(image_date, image_time) ==
    LET date_chars == PyStr(image_date)
        yyy == Slice(date_chars, 0, 3)
    IN  IF ~AllDigits(yyy)
        THEN Strptime(<<>>, <<>>, <<>>)
        ELSE Strptime(PyStrInt(PyInt(yyy) + 1900), Slice(date_chars, 3, 6),
                      ZFill(PyStr(image_time), 6))

\* str(pkg_resources.get_distribution("netCDF4"))
NetCDF4Distribution == Str("netCDF4 <version>")

\* Lines 305-321 on the global attributes, changed in place: what was deleted
\* before an exception stays deleted.
CleanupGlobals(global_attrs) ==
    IF IMAGE_DATE_ATTR_NAME \notin DOMAIN global_attrs
    THEN [attrs |-> global_attrs, raised |-> "KeyError"]
    ELSE LET image_date == global_attrs[IMAGE_DATE_ATTR_NAME]
             g1 == Del(global_attrs, IMAGE_DATE_ATTR_NAME)
         IN  IF IMAGE_TIME_ATTR_NAME \notin DOMAIN g1
             THEN [attrs |-> g1, raised |-> "KeyError"]
             ELSE LET image_time == g1[IMAGE_TIME_ATTR_NAME]
                      g2 == Del(g1, IMAGE_TIME_ATTR_NAME)
                      datetime_obj == ParseImageDateTime(image_date, image_time)
                  IN  IF datetime_obj.raised # "none"
                      THEN [attrs |-> g2, raised |-> datetime_obj.raised]
                      ELSE [attrs |-> Put(Put(g2, IMAGE_DATETIME_ATTR_NAME,
                                              Chars(Strftime(datetime_obj))),
                                          LIB_VERSION_ATTR_NAME, NetCDF4Distribution),
                            raised |-> "none"]

----------------------------------------------------------------------------
(* compliance_cleanup: the variables *)

NumIs(attrs, key, value) ==
    key \in DOMAIN attrs /\ attrs[key].kind = "num" /\ attrs[key].n = value

\* The scaling rule with temp_range = SHORT_RANGE_DEFAULT in place of the copy of
\* line 357: the assignments of lines 359-362 then change the module's list.
CleanupScaling_NoCopy(attrs, short_range_default) ==
    IF NumIs(attrs, "scale_factor", 1) /\ NumIs(attrs, "add_offset", 0)
    THEN LET a2 == Del(Del(attrs, "scale_factor"), "add_offset")
         IN  IF "scaling_method" \in DOMAIN a2
             THEN [attrs |-> Del(a2, "scaling_method"), did_set_ranges |-> FALSE,
                   raised |-> "none", short_range_default |-> short_range_default]
             ELSE [attrs |-> a2, did_set_ranges |-> FALSE, raised |-> "KeyError",
                   short_range_default |-> short_range_default]
    ELSE IF "scale_factor" \in DOMAIN attrs /\ "add_offset" \in DOMAIN attrs
    THEN IF FILL_VALUE_KEY \notin DOMAIN attrs
         THEN [attrs |-> attrs, did_set_ranges |-> FALSE, raised |-> "KeyError",
               short_range_default |-> short_range_default]
         ELSE LET fill_value == attrs[FILL_VALUE_KEY].n
                  temp_range ==
                      IF fill_value <= 0
                      THEN <<fill_value + 1, short_range_default[2]>>
                      ELSE <<short_range_default[1], fill_value - 1>>
              IN  [attrs |-> Put(Put(Put(attrs, VALID_RANGE_ATTR_NAME, List(temp_range)),
                                         VALID_MIN_ATTR_NAME, Num(temp_range[1])),
                                     VALID_MAX_ATTR_NAME, Num(temp_range[2])),
                   did_set_ranges |-> TRUE, raised |-> "none",
                   short_range_default |-> temp_range]
    ELSE [attrs |-> attrs, did_set_ranges |-> FALSE, raised |-> "none",
          short_range_default |-> short_range_default]

\* Lines 344-369: scaling attributes and the range derived from the fill value.
\* short_range_default is the module's list SHORT_RANGE_DEFAULT as the call
\* finds it; line 357 copies it (SHORT_RANGE_DEFAULT[:]), so the list is handed
\* on as it was found.
CleanupScaling(attrs, short_range_default) ==
    IF NumIs(attrs, "scale_factor", 1) /\ NumIs(attrs, "add_offset", 0)
    THEN LET a2 == Del(Del(attrs, "scale_factor"), "add_offset")
         IN  IF "scaling_method" \in DOMAIN a2
             THEN [attrs |-> Del(a2, "scaling_method"), did_set_ranges |-> FALSE,
                   raised |-> "none", short_range_default |-> short_range_default]
             ELSE [attrs |-> a2, did_set_ranges |-> FALSE, raised |-> "KeyError",
                   short_range_default |-> short_range_default]
    ELSE IF "scale_factor" \in DOMAIN attrs /\ "add_offset" \in DOMAIN attrs
    THEN IF FILL_VALUE_KEY \notin DOMAIN attrs
         THEN [attrs |-> attrs, did_set_ranges |-> FALSE, raised |-> "KeyError",
               short_range_default |-> short_range_default]
         ELSE LET fill_value == attrs[FILL_VALUE_KEY].n
                  temp_range ==
                      IF fill_value <= 0
                      THEN <<fill_value + 1, short_range_default[2]>>
                      ELSE <<short_range_default[1], fill_value - 1>>
              IN  [attrs |-> Put(Put(Put(attrs, VALID_RANGE_ATTR_NAME, List(temp_range)),
                                         VALID_MIN_ATTR_NAME, Num(temp_range[1])),
                                     VALID_MAX_ATTR_NAME, Num(temp_range[2])),
                   did_set_ranges |-> TRUE, raised |-> "none",
                   short_range_default |-> short_range_default]
    ELSE [attrs |-> attrs, did_set_ranges |-> FALSE, raised |-> "none",
          short_range_default |-> short_range_default]

\* The units rule without the test of the shape (line 388): units of "no units"
\* or "none" are always deleted.
CleanupUnits_NoShapeTest(var_info) ==
    LET attrs == var_info.attributes
    IN  IF "units" \in DOMAIN attrs /\ attrs["units"].kind = "str"
           /\ attrs["units"].s \in BAD_UNITS_SET
        THEN Del(attrs, "units")
        ELSE attrs

\* Lines 383-391: units of "no units" or "none".
CleanupUnits(var_info) ==
    LET attrs == var_info.attributes
    IN  IF "units" \in DOMAIN attrs /\ attrs["units"].kind = "str"
           /\ attrs["units"].s \in BAD_UNITS_SET
        THEN IF Len(var_info.shape) >= 2
             THEN Put(attrs, "units", Str("1"))
             ELSE Del(attrs, "units")
        ELSE attrs

\* Lines 394-399: attribute values of the conversion list.
ConvertAttrs(attrs) ==
    [k \in DOMAIN attrs |->
        IF attrs[k].kind = "str" /\ attrs[k].s \in DOMAIN CONVERT_ATTRS_MAP
        THEN Str(CONVERT_ATTRS_MAP[attrs[k].s])
        ELSE attrs[k]]

\* Lines 404-413: every matching key of LONG_NAME_MAP sets long_name, in
\* iteration order.
RECURSIVE AddLongName(_, _, _, _)
AddLongName(attrs, var_name, keys, i) ==
    IF i > Len(keys) THEN attrs
    ELSE LET var_exp_key == keys[i].pattern
             long_name_str ==
                 IF var_exp_key \in CHANNEL_DATA_PATTERNS
                 THEN LET m == MatchGroups(var_exp_key, var_name)
                      IN  Fmt(keys[i].long_name, <<m.group2>> \o m.group1)
                 ELSE Str(keys[i].long_name)
         IN  AddLongName(IF ReMatch(var_exp_key, var_name)
                         THEN Put(attrs, LONG_NAME_ATTR_NAME, long_name_str)
                         ELSE attrs,
                         var_name, keys, i + 1)

\* The range rule without "and not did_set_ranges" (line 419).
RECURSIVE AddRange_Unguarded(_, _, _, _, _)
AddRange_Unguarded(attrs, var_name, did_set_ranges, keys, i) ==
    IF i > Len(keys) THEN attrs
    ELSE LET temp_range == keys[i].range
         IN  AddRange_Unguarded(
                 IF ReMatch(keys[i].pattern, var_name)
                 THEN Put(Put(Put(attrs, VALID_RANGE_ATTR_NAME, List(temp_range)),
                                  VALID_MIN_ATTR_NAME, Num(temp_range[1])),
                              VALID_MAX_ATTR_NAME, Num(temp_range[2]))
                 ELSE attrs,
                 var_name, did_set_ranges, keys, i + 1)

\* Lines 416-424: every matching key of RANGE_LIMS_MAP sets the range
\* attributes unless the range was derived from the fill value.
RECURSIVE AddRange(_, _, _, _, _)
AddRange(attrs, var_name, did_set_ranges, keys, i) ==
    IF i > Len(keys) THEN attrs
    ELSE LET temp_range == keys[i].range
         IN  AddRange(IF ReMatch(keys[i].pattern, var_name) /\ ~did_set_ranges
                      THEN Put(Put(Put(attrs, VALID_RANGE_ATTR_NAME, List(temp_range)),
                                       VALID_MIN_ATTR_NAME, Num(temp_range[1])),
                                   VALID_MAX_ATTR_NAME, Num(temp_range[2]))
                      ELSE attrs,
                      var_name, did_set_ranges, keys, i + 1)

\* Lines 427-433: flag values and meanings.
RECURSIVE AddFlags(_, _, _, _, _)
AddFlags(attrs, var_name, did_set_ranges, keys, i) ==
    IF i > Len(keys) THEN attrs
    ELSE AddFlags(IF ReMatch(keys[i].pattern, var_name) /\ ~did_set_ranges
                  THEN Put(Put(attrs, FLAG_VALS_ATTR_NAME, List(keys[i].flag_values)),
                           FLAG_MEANINGS_ATTR_NAME, Strs(keys[i].flag_meanings))
                  ELSE attrs,
                  var_name, did_set_ranges, keys, i + 1)

\* Lines 339-433, one iteration of the loop over the variables.
CleanupVariable(var_name, var_info, order, short_range_default) ==
    LET scaled == CleanupScaling(var_info.attributes, short_range_default)
        a1 == CleanupUnits([var_info EXCEPT !.attributes = scaled.attrs])
        a2 == ConvertAttrs(a1)
        a3 == AddLongName(a2, var_name, KeysOf(LONG_NAME_MAP, order), 1)
        a4 == AddRange(a3, var_name, scaled.did_set_ranges,
                       KeysOf(RANGE_LIMS_MAP, order), 1)
        a5 == AddFlags(a4, var_name, scaled.did_set_ranges,
                       KeysOf(FLAG_INFO_MAP, order), 1)
    IN  IF scaled.raised # "none"
        THEN [var_info |-> [var_info EXCEPT !.attributes = scaled.attrs],
              raised |-> scaled.raised,
              short_range_default |-> scaled.short_range_default]
        ELSE [var_info |-> [var_info EXCEPT !.attributes = a5], raised |-> "none",
              short_range_default |-> scaled.short_range_default]

\* in_file_info[VAR_INFO_KEY].keys(): the variables still in the dictionary, in
\* the dictionary's order; inserted is the order read_hdf4_info filled it in.
VarInfoKeys(info, inserted, order) ==
    KeysOf(SelectSeq(inserted, LAMBDA v : v \in DOMAIN info.variable_info), order)

\* Lines 329-332: the variables of VARS_TO_DELETE are removed and the variable
\* list is rebuilt from the keys of the dictionary.
RECURSIVE DeleteVars(_, _, _, _)
DeleteVars(info, inserted, order, i) ==
    IF i > Len(VARS_TO_DELETE) THEN info
    ELSE LET var_name == VARS_TO_DELETE[i]
             removed == [info EXCEPT !.variable_info = Del(@, var_name)]
         IN  DeleteVars(IF var_name \in DOMAIN info.variable_info
                        THEN [removed EXCEPT !.variable_list =
                                                 VarInfoKeys(removed, inserted, order)]
                        ELSE info,
                        inserted, order, i + 1)

\* Lines 336-433: the loop over in_file_info[VAR_INFO_KEY].keys(); an exception
\* leaves the variables cleaned so far as they are.  Each iteration finds
\* SHORT_RANGE_DEFAULT as the iteration before left it.
RECURSIVE CleanupVariables(_, _, _, _, _)
CleanupVariables(info, order, keys, i, short_range_default) ==
    IF i > Len(keys) THEN [info |-> info, raised |-> "none"]
    ELSE LET one == CleanupVariable(keys[i], info.variable_info[keys[i]], order,
                                    short_range_default)
             info1 == [info EXCEPT !.variable_info[keys[i]] = one.var_info]
         IN  IF one.raised # "none" THEN [info |-> info1, raised |-> one.raised]
             ELSE CleanupVariables(info1, order, keys, i + 1,
                                   one.short_range_default)

\* compliance_cleanup(in_file_info): the catalog after the call, which changes
\* it in place, and the exception raised, if any.  in_file_info = None raises
\* TypeError at the first subscript.
compliance_cleanup(info, order) ==
    IF info.is_none THEN [info |-> info, raised |-> "TypeError"]
    ELSE LET g == CleanupGlobals(info.global_attributes)
             info1 == [info EXCEPT !.global_attributes = g.attrs]
             info2 == DeleteVars(info1, info.variable_list, order, 1)
         IN  IF g.raised # "none" THEN [info |-> info1, raised |-> g.raised]
             ELSE CleanupVariables(info2, order,
                                   VarInfoKeys(info2, info.variable_list, order), 1,
                                   SHORT_RANGE_DEFAULT)

----------------------------------------------------------------------------
(* Catalogs: the structure read_hdf4_info returns *)

\* file_info of read_hdf4_info (lines 105-129).
FileInfo(global_attrs, variable_list, shapes, attrs) ==
    [is_none |-> FALSE,
     global_attributes |-> global_attrs,
     variable_list |-> variable_list,
     variable_info |-> [v \in {variable_list[i] : i \in 1..Len(variable_list)} |->
                           [shape |-> shapes[v], attributes |-> attrs[v]]]]

\* in_file_info = None (line 528).
NoneInfo ==
    [is_none |-> TRUE,
     global_attributes |-> EmptyDict,
     variable_list |-> <<>>,
     variable_info |-> EmptyDict]

\* dd_result before determine_dimensions was called.
NotCalled == [DDStart EXCEPT !.raised = "not called"]

----------------------------------------------------------------------------
(* hdf4_2_netcdf4: the batch *)

\* What a file of the batch holds and how the libraries answer for it: stem is
\* the file name without extension, openable whether SD() opens it, info what
\* read_hdf4_info reads from it, sink how the netCDF4 library answers
\* ("ok", "create_fails": Dataset() raises, "write_fails": a later call raises).
InputFile(stem, openable, info, sink) ==
    [stem |-> stem, openable |-> openable, info |-> info, sink |-> sink]

Stems == {"a", "b"}

PIXEL_LATITUDE == <<"pixel", "latitude">>
PIXEL_LONGITUDE == <<"pixel", "longitude">>

GoodGlobals ==
    [k \in {IMAGE_DATE_ATTR_NAME, IMAGE_TIME_ATTR_NAME} |->
        IF k = IMAGE_DATE_ATTR_NAME THEN Num(115032) ELSE Num(83000)]

PackedAttrs ==
    [k \in {"scale_factor", "add_offset", "scaling_method", FILL_VALUE_KEY, "units"} |->
        CASE k = "scale_factor" -> Num(2)
          [] k = "add_offset" -> Num(0)
          [] k = "scaling_method" -> Num(1)
          [] k = FILL_VALUE_KEY -> Num(-32768)
          [] OTHER -> Str("none")]

\* One raster and scan_line_time: converts.
GoodCatalog ==
    FileInfo(GoodGlobals, <<PIXEL_LATITUDE, SCAN_LINE_TIME_VAR_NAME>>,
             [v \in {PIXEL_LATITUDE, SCAN_LINE_TIME_VAR_NAME} |->
                 IF v = PIXEL_LATITUDE THEN <<2, 3>> ELSE <<2>>],
             [v \in {PIXEL_LATITUDE, SCAN_LINE_TIME_VAR_NAME} |->
                 IF v = PIXEL_LATITUDE THEN PackedAttrs ELSE EmptyDict])

\* Image_Time is absent.
NoTimeCatalog ==
    [GoodCatalog EXCEPT !.global_attributes = Del(@, IMAGE_TIME_ATTR_NAME)]

\* Two rasters that disagree on the number of elements.
MismatchCatalog ==
    FileInfo(GoodGlobals, <<PIXEL_LATITUDE, PIXEL_LONGITUDE>>,
             [v \in {PIXEL_LATITUDE, PIXEL_LONGITUDE} |->
                 IF v = PIXEL_LATITUDE THEN <<2, 3>> ELSE <<2, 2>>],
             [v \in {PIXEL_LATITUDE, PIXEL_LONGITUDE} |-> EmptyDict])

BatchCatalogs == {GoodCatalog, NoTimeCatalog, MismatchCatalog}

\* The library's failures are drawn for the catalog that gets as far as the
\* sink; a file that does not open has nothing else to tell.
InputFiles ==
    {InputFile(stem, TRUE, GoodCatalog, sink) :
        stem \in Stems, sink \in {"ok", "create_fails", "write_fails"}}
    \cup {InputFile(stem, TRUE, info, "ok") : stem \in Stems, info \in BatchCatalogs}
    \cup {InputFile(stem, FALSE, NoneInfo, "ok") : stem \in Stems}

\* What is at an output path: nothing, a file that was there before the batch,
\* or the file a conversion of the batch (by) made, with the variables it holds
\* when write_netCDF4_file returned.
Absent == [state |-> "absent", by |-> 0, variables |-> EmptyDict]
Old == [state |-> "old", by |-> 0, variables |-> EmptyDict]

Logged(i, event) == \E k \in 1..Len(log) : log[k] = <<i, event>>

Init ==
    /\ files_list \in UNION {[1..n -> InputFiles] : n \in 0..MaxFiles}
    /\ keys_order \in {"declared", "reversed"}
    /\ fs \in [Stems -> {Absent, Old}]
    /\ fs["b"] = Absent
    /\ pc = "start"
    /\ idx = 0
    /\ code_to_return = 0
    /\ in_file_object = None
    /\ out_file_object = None
    /\ in_file_info = NoneInfo
    /\ open_handles = {}
    /\ next_handle = 1
    /\ dd_result = NotCalled
    /\ raised = "none"
    /\ log = <<>>

\* Start without line 511: an empty list leaves the code at 0.
Start_NoEmptyCode ==
    /\ pc = "start"
    /\ code_to_return' = 0
    /\ pc' = "loop"
    /\ UNCHANGED <<files_list, keys_order, fs, idx, in_file_object, out_file_object,
                   in_file_info, open_handles, next_handle, dd_result, raised, log>>

\* Lines 506-511.
Start ==
    /\ pc = "start"
    /\ code_to_return' = IF Len(files_list) <= 0 THEN 1 ELSE 0
    /\ pc' = "loop"
    /\ UNCHANGED <<files_list, keys_order, fs, idx, in_file_object, out_file_object,
                   in_file_info, open_handles, next_handle, dd_result, raised, log>>

\* Lines 514-528: the next file of the list.
NextFile ==
    /\ pc = "loop"
    /\ idx < Len(files_list)
    /\ idx' = idx + 1
    /\ in_file_object' = None
    /\ out_file_object' = None
    /\ in_file_info' = NoneInfo
    /\ pc' = "open"
    /\ UNCHANGED <<files_list, keys_order, fs, code_to_return, open_handles,
                   next_handle, dd_result, raised, log>>

\* Line 560.
Return ==
    /\ pc = "loop"
    /\ idx = Len(files_list)
    /\ pc' = "returned"
    /\ UNCHANGED <<files_list, keys_order, fs, idx, code_to_return, in_file_object,
                   out_file_object, in_file_info, open_handles, next_handle,
                   dd_result, raised, log>>

\* Lines 529-534: read_hdf4_info, and the handler of HDF4Error.
ReadInput ==
    /\ pc = "open"
    /\ IF files_list[idx].openable
       THEN /\ in_file_object' = next_handle
            /\ next_handle' = next_handle + 1
            /\ open_handles' = open_handles \cup {next_handle}
            /\ in_file_info' = files_list[idx].info
            /\ log' = Append(log, <<idx, "opened">>)
            /\ UNCHANGED code_to_return
       ELSE /\ code_to_return' = 2
            /\ log' = Append(log, <<idx, "open failed">>)
            /\ UNCHANGED <<in_file_object, next_handle, open_handles, in_file_info>>
    /\ pc' = "cleanup"
    /\ UNCHANGED <<files_list, keys_order, fs, idx, out_file_object, dd_result, raised>>

\* Line 537: compliance_cleanup(in_file_info) changes the catalog in place; its
\* exceptions are not handled and leave hdf4_2_netcdf4.
ComplianceCleanup ==
    /\ pc = "cleanup"
    /\ LET done == compliance_cleanup(in_file_info, keys_order)
       IN  /\ in_file_info' = done.info
           /\ raised' = done.raised
           /\ pc' = IF done.raised = "none" THEN "path" ELSE "raised"
           /\ log' = Append(log, <<idx, IF done.raised = "none" THEN "cleaned"
                                        ELSE "cleanup raised">>)
    /\ UNCHANGED <<files_list, keys_order, fs, idx, code_to_return, in_file_object,
                   out_file_object, open_handles, next_handle, dd_result>>

\* The check of the output path without line 545: the warning is given and the
\* code is left as it was.
CheckOutputPath_WarnOnly ==
    /\ pc = "path"
    /\ IF fs[files_list[idx].stem].state # "absent"
       THEN log' = Append(log, <<idx, "output existed">>)
       ELSE UNCHANGED log
    /\ pc' = "write"
    /\ UNCHANGED <<files_list, keys_order, fs, idx, code_to_return, in_file_object,
                   out_file_object, in_file_info, open_handles, next_handle,
                   dd_result, raised>>

\* Lines 540-545: the output path and the warning when it exists.
CheckOutputPath ==
    /\ pc = "path"
    /\ IF fs[files_list[idx].stem].state # "absent"
       THEN /\ code_to_return' = 3
            /\ log' = Append(log, <<idx, "output existed">>)
       ELSE UNCHANGED <<code_to_return, log>>
    /\ pc' = "write"
    /\ UNCHANGED <<files_list, keys_order, fs, idx, in_file_object, out_file_object,
                   in_file_info, open_handles, next_handle, dd_result, raised>>

\* write_netCDF4_file (lines 453-495): how far the call gets.  "create failed":
\* Dataset() raised; "dd raised": determine_dimensions raised after the sink was
\* created; "write failed": a later call of the library raised; "written": the
\* call returned out_file.
WriteOutcome(file, dims) ==
    IF file.sink = "create_fails" THEN "create failed"
    ELSE IF dims.raised # "none" THEN "dd raised"
    ELSE IF file.sink = "write_fails" THEN "write failed"
    ELSE "written"

\* Lines 472-474: in_file_obj.select(var_name)[:], the raw values of the
\* variable of that name in the source file, and their dtype.
SourceData(file, var_name) ==
    [values |-> <<file.stem, var_name, "values">>,
     dtype |-> <<file.stem, var_name, "dtype">>]

\* out_var_obj[:] = raw_data in the netCDF4 library: with automatic masking and
\* scaling on, values are packed with scale_factor and add_offset and masked
\* with the fill value of the variable before they are stored; with it off
\* they are stored as given.
SinkAssign(out_var_obj, raw_data) ==
    [out_var_obj EXCEPT !.data =
        [values |-> raw_data.values,
         converted |-> /\ out_var_obj.auto_maskandscale
                       /\ \/ out_var_obj.fill_value # {}
                          \/ {"scale_factor", "add_offset"}
                                 \cap DOMAIN out_var_obj.attributes # {}]]

\* The body of the loop without line 485: the variable stays as createVariable
\* made it, with automatic masking and scaling on.
WriteVariable_AutoScale(file, var_name, variable_attr_info, dims) ==
    LET raw_data == SourceData(file, var_name)
        fill_value_temp == IF FILL_VALUE_KEY \in DOMAIN variable_attr_info
                           THEN {variable_attr_info[FILL_VALUE_KEY]} ELSE {}
        created == [data_type |-> raw_data.dtype, dimensions |-> dims,
                    fill_value |-> fill_value_temp, auto_maskandscale |-> TRUE,
                    attributes |-> EmptyDict, data |-> [values |-> <<>>, converted |-> FALSE]]
        with_attrs == [created EXCEPT !.attributes =
                          [k \in DOMAIN variable_attr_info \ {FILL_VALUE_KEY} |->
                              variable_attr_info[k]]]
    IN  SinkAssign(with_attrs, raw_data)

\* Lines 469-493, one iteration: the variable of the sink after createVariable
\* (line 483; fill_value is the set of the values given, empty for None),
\* set_auto_maskandscale(False) (line 485), the attribute loop (lines 488-490)
\* and the assignment of the data (line 493).
WriteVariable(file, var_name, variable_attr_info, dims) ==
    LET raw_data == SourceData(file, var_name)
        fill_value_temp == IF FILL_VALUE_KEY \in DOMAIN variable_attr_info
                           THEN {variable_attr_info[FILL_VALUE_KEY]} ELSE {}
        created == [data_type |-> raw_data.dtype, dimensions |-> dims,
                    fill_value |-> fill_value_temp, auto_maskandscale |-> TRUE,
                    attributes |-> EmptyDict, data |-> [values |-> <<>>, converted |-> FALSE]]
        unscaled == [created EXCEPT !.auto_maskandscale = FALSE]
        with_attrs == [unscaled EXCEPT !.attributes =
                          [k \in DOMAIN variable_attr_info \ {FILL_VALUE_KEY} |->
                              variable_attr_info[k]]]
    IN  SinkAssign(with_attrs, raw_data)

\* Lines 469-493: the variables of the sink when write_netCDF4_file returns.
WriteVariables(file, info, dims) ==
    [var_name \in DOMAIN dims.variable_dim_info |->
        WriteVariable(file, var_name, info.variable_info[var_name].attributes,
                      dims.variable_dim_info[var_name])]

\* Lines 547-552: write_netCDF4_file and the handler of Exception.  Dataset(...,
\* mode='w', clobber=True) replaces the file at the path; out_file is returned,
\* and so known to the caller, only when nothing raised.  The variables of a
\* file that a failed call leaves behind are not recorded.
WriteFile ==
    /\ pc = "write"
    /\ LET file == files_list[idx]
           dims == determine_dimensions(in_file_info, keys_order)
           outcome == WriteOutcome(file, dims)
       IN  /\ log' = Append(log, <<idx, outcome>>)
           /\ IF outcome = "create failed"
              THEN UNCHANGED <<fs, open_handles, next_handle, dd_result>>
              ELSE /\ open_handles' = open_handles \cup {next_handle}
                   /\ next_handle' = next_handle + 1
                   /\ dd_result' = dims
                   /\ fs' = [fs EXCEPT ![file.stem] =
                                [state |-> IF outcome = "written" THEN "written"
                                           ELSE "partial",
                                 by |-> idx,
                                 variables |->
                                     IF outcome = "written"
                                     THEN WriteVariables(file, in_file_info, dims)
                                     ELSE EmptyDict]]
           /\ IF outcome = "written"
              THEN /\ out_file_object' = next_handle
                   /\ UNCHANGED code_to_return
              ELSE /\ code_to_return' = 4
                   /\ UNCHANGED out_file_object
    /\ pc' = "close"
    /\ UNCHANGED <<files_list, keys_order, idx, in_file_object, in_file_info, raised>>

\* Lines 555-558: the handles the function knows are released.
CloseFiles ==
    /\ pc = "close"
    /\ open_handles' = open_handles \ {in_file_object, out_file_object}
    /\ pc' = "loop"
    /\ UNCHANGED <<files_list, keys_order, fs, idx, code_to_return, in_file_object,
                   out_file_object, in_file_info, next_handle, dd_result, raised, log>>

Next ==
    \/ Start
    \/ NextFile
    \/ ReadInput
    \/ ComplianceCleanup
    \/ CheckOutputPath
    \/ WriteFile
    \/ CloseFiles
    \/ Return

Spec == Init /\ [][Next]_vars

----------------------------------------------------------------------------
(* determine_dimensions called directly on a catalog *)

DimSizes == {2, 3}
AxisCounts == {1, 2, 3}
Shapes == UNION {[1..n -> DimSizes] : n \in AxisCounts}

DDNames ==
    { <<"pixel", "latitude">>, <<"pixel", "longitude">>,
      <<"goes", "quality", "flags1">>, <<"fk1", "planck">>,
      <<"calibration", "quality", "flags1">> }

\* Lists of distinct names: the keys of a dictionary.
NameLists(names, n) ==
    {l \in UNION {[1..k -> names] : k \in 0..n} :
        \A i, j \in 1..Len(l) : i # j => l[i] # l[j]}

Range(l) == {l[i] : i \in 1..Len(l)}

InitDD ==
    /\ files_list = <<>>
    /\ keys_order \in {"declared", "reversed"}
    /\ fs = EmptyDict
    /\ pc = "dd"
    /\ idx = 0
    /\ code_to_return = 0
    /\ in_file_object = None
    /\ out_file_object = None
    /\ \E l \in NameLists(DDNames, MaxVars) : \E sh \in [Range(l) -> Shapes] :
           in_file_info = FileInfo(EmptyDict, l, sh, [v \in Range(l) |-> EmptyDict])
    /\ open_handles = {}
    /\ next_handle = 1
    /\ dd_result = NotCalled
    /\ raised = "none"
    /\ log = <<>>

\* A call of determine_dimensions(in_file_info).
CallDetermineDimensions ==
    /\ pc = "dd"
    /\ dd_result' = determine_dimensions(in_file_info, keys_order)
    /\ pc' = "dd_done"
    /\ UNCHANGED <<files_list, keys_order, fs, idx, code_to_return, in_file_object,
                   out_file_object, in_file_info, open_handles, next_handle,
                   raised, log>>

NextDD == CallDetermineDimensions

SpecDD == InitDD /\ [][NextDD]_vars

----------------------------------------------------------------------------
(* compliance_cleanup called directly on a catalog *)

\* A dictionary from a set of <<key, value>> pairs with distinct keys.
Attrs(pairs) ==
    [k \in {p[1] : p \in pairs} |-> (CHOOSE p \in pairs : p[1] = k)[2]]

\* Image_Date is years since 1900 followed by the day of the year, Image_Time
\* is HHMMSS; both are integers in the file, so leading zeros are not kept.
CCYears == {99, 100, 115, 116}
CCDays == {1, 32, 60, 365, 366}
CCTimes == {0, 5, 83000, 235959, 240000}

ImageDate(years, day) == Num(years * 1000 + day)

CCGlobals ==
    {Attrs({<<IMAGE_DATE_ATTR_NAME, ImageDate(y, d)>>, <<IMAGE_TIME_ATTR_NAME, Num(t)>>}) :
        y \in CCYears, d \in CCDays, t \in CCTimes}
    \cup {Del(GoodGlobals, IMAGE_DATE_ATTR_NAME), Del(GoodGlobals, IMAGE_TIME_ATTR_NAME)}

\* The scaling attributes of a variable; each argument is the set of the
\* values the attribute has: empty when the variable does not have it.
ScalingAttrs(scale_factor, add_offset, scaling_method, fill_value) ==
    Attrs({<<"scale_factor", Num(v)>> : v \in scale_factor}
          \cup {<<"add_offset", Num(v)>> : v \in add_offset}
          \cup {<<"scaling_method", Num(v)>> : v \in scaling_method}
          \cup {<<FILL_VALUE_KEY, Num(v)>> : v \in fill_value})

CCFills == {-32768, 0, 1}

\* scale_factor and add_offset: both absent, one absent, 1.0 and 0.0, 2.0 and 0.0.
CCScaleOffsets == {<<{}, {}>>, <<{2}, {}>>, <<{1}, {0}>>, <<{2}, {0}>>}

CCScalings ==
    {ScalingAttrs(so[1], so[2], m, f) :
        so \in CCScaleOffsets, m \in {{}, {1}},
        f \in {{}} \cup {{x} : x \in CCFills}}

\* The units attribute of a variable and the shape of the variable.
CCUnits ==
    {[shape |-> <<2, 3>>, attributes |-> EmptyDict],
     [shape |-> <<2, 3>>, attributes |-> Attrs({<<"units", Str("K")>>})]}
    \cup {[shape |-> sh, attributes |-> Attrs({<<"units", Str(u)>>})] :
              sh \in {<<2>>, <<2, 3>>}, u \in BAD_UNITS_SET}

Merge(d1, d2) ==
    [k \in DOMAIN d1 \cup DOMAIN d2 |-> IF k \in DOMAIN d2 THEN d2[k] ELSE d1[k]]

PIXEL_SURFACE_TYPE == <<"pixel", "surface", "type">>
CALIBRATION_SLOPE_DEGRADE == <<"calibration", "slope", "degrade">>
GOES_CHANNEL_2_REFLECTANCE == <<"goes", "channel", "2", "reflectance">>

CCNames ==
    { PIXEL_LATITUDE, PIXEL_SURFACE_TYPE, CALIBRATION_SLOPE_DEGRADE,
      GOES_CHANNEL_2_REFLECTANCE, SCAN_LINE_TIME_VAR_NAME, <<"foo">> }

\* The other variables of a catalog: packed, with a fill value of their own, and
\* without units.
OtherAttrs ==
    Merge(ScalingAttrs({2}, {0}, {1}, {100}), Attrs({<<"units", Str("none")>>}))

\* The catalogs compliance_cleanup is called on: the first variable of the list
\* takes every combination of attributes, or the global attributes take every
\* date and time.
CCCatalogs ==
    {FileInfo(GoodGlobals, l,
              [v \in Range(l) |-> IF v = l[1] THEN u.shape ELSE <<2, 3>>],
              [v \in Range(l) |-> IF v = l[1] THEN Merge(sc, u.attributes)
                                  ELSE OtherAttrs]) :
        l \in NameLists(CCNames, MaxVars) \ {<<>>}, sc \in CCScalings, u \in CCUnits}
    \cup {[GoodCatalog EXCEPT !.global_attributes = g] : g \in CCGlobals}

InitCC ==
    /\ \E info \in CCCatalogs : files_list = <<InputFile("a", TRUE, info, "ok")>>
    /\ keys_order \in {"declared", "reversed"}
    /\ fs = EmptyDict
    /\ pc = "cc"
    /\ idx = 1
    /\ code_to_return = 0
    /\ in_file_object = None
    /\ out_file_object = None
    /\ in_file_info = files_list[1].info
    /\ open_handles = {}
    /\ next_handle = 1
    /\ dd_result = NotCalled
    /\ raised = "none"
    /\ log = <<>>

\* A call of compliance_cleanup(in_file_info) on what was read from the file.
CallComplianceCleanup ==
    /\ pc = "cc"
    /\ LET done == compliance_cleanup(in_file_info, keys_order)
       IN  /\ in_file_info' = done.info
           /\ raised' = done.raised
    /\ pc' = "cc_done"
    /\ UNCHANGED <<files_list, keys_order, fs, idx, code_to_return, in_file_object,
                   out_file_object, open_handles, next_handle, dd_result, log>>

NextCC == CallComplianceCleanup

SpecCC == InitCC /\ [][NextCC]_vars

----------------------------------------------------------------------------
(* Claims about the batch (specification Spec) *)

FileIndexes == 1..Len(files_list)

EventsOf(i) == {log[k][2] : k \in {k \in 1..Len(log) : log[k][1] = i}}

\* C1: when opening an input file fails, a per-file code is recorded, every
\* remaining step for that file is skipped, and the batch goes on to return a
\* status code instead of terminating with an exception.
C1_OpenFailureSkipsFile ==
    \A i \in FileIndexes :
        Logged(i, "open failed") =>
            /\ code_to_return # 0
            /\ EventsOf(i) = {"open failed"}
            /\ pc # "raised"

\* C2: when the metadata rewriter fails fatally for a file that was opened
\* (Image_Date or Image_Time absent or malformed), only that file is skipped: a
\* code is recorded for it and the batch does not terminate with an exception.
C2_RewriterFailureSkipsFile ==
    \A i \in FileIndexes :
        (Logged(i, "opened") /\ Logged(i, "cleanup raised")) =>
            /\ code_to_return # 0
            /\ pc # "raised"

\* The code hdf4_2_netcdf4 assigns for an event of a file.
EventCode(event) ==
    CASE event = "open failed" -> 2
      [] event = "output existed" -> 3
      [] event \in {"create failed", "dd raised", "write failed"} -> 4
      [] OTHER -> 0

SetMax(S) == CHOOSE m \in S : \A x \in S : x <= m

\* C3: the status returned is the worst-case combination of the outcomes of all
\* files: the most severe code any file produced, whatever the order of the
\* files (a later, less severe outcome never replaces an earlier, more severe
\* one).
C3_WorstCaseStatus ==
    (pc = "returned" /\ Len(files_list) > 0) =>
        code_to_return = SetMax({0} \cup {EventCode(log[k][2]) : k \in 1..Len(log)})

FullSuccess ==
    /\ Len(files_list) > 0
    /\ \A i \in FileIndexes :
           /\ Logged(i, "opened")
           /\ ~Logged(i, "output existed")
           /\ Logged(i, "written")

\* C4: hdf4_2_netcdf4 returns 0 if and only if the batch was a full success: the
\* list is non-empty and every file was opened, had no output at its path
\* before, and had its sink created and written without error; an empty list
\* returns a non-zero code and processes nothing.
C4_ZeroIffFullSuccess ==
    pc = "returned" =>
        /\ (code_to_return = 0 <=> FullSuccess)
        /\ (Len(files_list) = 0 => (code_to_return # 0 /\ log = <<>>))

\* A batch of two files returned 0.
C4_Witness ==
    pc = "returned" /\ Len(files_list) = 2 /\ code_to_return = 0 /\ FullSuccess

\* C5: on every exit path of a file's conversion, every source handle that was
\* opened and every sink handle that was created has been released before the
\* next file is started or the batch returns.
C5_HandlesReleased ==
    pc \in {"loop", "returned"} => open_handles = {}

\* C6: running the metadata rewriter and the dimension resolver leaves the raw
\* catalog read from the source unchanged: the object read_hdf4_info returned
\* for the current file still holds what was read.
C6_RawCatalogUnchanged ==
    (idx \in FileIndexes /\ Logged(idx, "opened")) =>
        in_file_info = files_list[idx].info

----------------------------------------------------------------------------
(* Claims about determine_dimensions (specification SpecDD) *)

Returned == pc = "dd_done" /\ dd_result.raised = "none"

ShapeOf(v) == in_file_info.variable_info[v].shape

IsSpecial(v) ==
    \E i \in 1..Len(SPECIAL_VARIABLES) : ReMatch(SPECIAL_VARIABLES[i].pattern, v)

Axes(v) == {a \in 1..Len(ShapeOf(v)) : a <= Len(dd_result.variable_dim_info[v])}

\* C7: in any result returned, for every variable and every axis the raw axis
\* size equals the table size of the dimension assigned to that axis, or that
\* dimension is unlimited; a variable whose raw axis size conflicts with the
\* size established for the dimension makes the resolution fail.
C7_SizesAgreeWithTable ==
    Returned =>
        \A v \in DOMAIN dd_result.variable_dim_info : \A a \in Axes(v) :
            LET size == dd_result.dimensions[dd_result.variable_dim_info[v][a]]
            IN  size = ShapeOf(v)[a] \/ size = None

\* The regular 2-axis variables of the catalog, by position.
RegularAt ==
    {i \in 1..Len(in_file_info.variable_list) :
        /\ ~IsSpecial(in_file_info.variable_list[i])
        /\ Len(ShapeOf(in_file_info.variable_list[i])) = 2}

FirstRegular ==
    in_file_info.variable_list[CHOOSE i \in RegularAt : \A j \in RegularAt : i <= j]

Raster(v) ==
    /\ v \in DOMAIN dd_result.variable_dim_info
    /\ dd_result.variable_dim_info[v] = <<LINES_DIM_NAME, ELEMS_DIM_NAME>>

\* C8: every variable assigned (lines, elements) has raw shape exactly (size of
\* lines, size of elements), both sizes being those of the first regular 2-axis
\* variable in catalog order; a regular variable whose axis 0 or axis 1 differs
\* is not assigned (lines, elements) and is left to the second pass.
C8_RastersShareLinesElements ==
    (pc = "dd_done" /\ RegularAt # {}) =>
        /\ dd_result.dimensions[LINES_DIM_NAME] = ShapeOf(FirstRegular)[1]
        /\ dd_result.dimensions[ELEMS_DIM_NAME] = ShapeOf(FirstRegular)[2]
        /\ Raster(FirstRegular)
        /\ \A i \in RegularAt :
               LET v == in_file_info.variable_list[i]
               IN  IF ShapeOf(v) = ShapeOf(FirstRegular)
                   THEN Raster(v)
                   ELSE /\ ~Raster(v)
                        /\ v \in Range(dd_result.vars_to_process_last)
        /\ \A v \in DOMAIN dd_result.variable_dim_info :
               Raster(v) => ShapeOf(v) = ShapeOf(FirstRegular)

\* Two regular 2-axis variables, the second with another shape than the first.
C8_Witness ==
    /\ pc = "dd_done"
    /\ Cardinality(RegularAt) = 2
    /\ \E i \in RegularAt :
           /\ ShapeOf(in_file_info.variable_list[i])[1] = ShapeOf(FirstRegular)[1]
           /\ ShapeOf(in_file_info.variable_list[i])[2] # ShapeOf(FirstRegular)[2]
           /\ ~Raster(in_file_info.variable_list[i])

\* The variables the second pass has no rule for.
Unruled ==
    {v \in Range(in_file_info.variable_list) :
        ~IsSpecial(v) /\ v \in Range(dd_result.vars_to_process_last)}

\* C9: an irregular variable that matches no rule is resolved successfully:
\* determine_dimensions returns and gives it one temporary dimension per axis,
\* shared with no other variable or axis and registered with the size of the
\* raw axis.
C9_IrregularGetsTempDims ==
    pc = "dd_done" =>
        \A v \in Unruled :
            /\ dd_result.raised = "none"
            /\ v \in DOMAIN dd_result.variable_dim_info
            /\ LET names == dd_result.variable_dim_info[v]
               IN  /\ Len(names) = Len(ShapeOf(v))
                   /\ \A a \in 1..Len(names) :
                          /\ dd_result.dimensions[names[a]] = ShapeOf(v)[a]
                          /\ \A b \in 1..Len(names) : names[a] = names[b] => a = b
                          /\ \A w \in DOMAIN dd_result.variable_dim_info \ {v} :
                                 names[a] \notin Range(dd_result.variable_dim_info[w])

Occurrences(seq, x) == Cardinality({k \in 1..Len(seq) : seq[k] = x})

\* C10: when determine_dimensions returns, its mapping holds every variable of
\* the catalog and no other name, each variable was handled by at most one
\* assignment (the regular one or one of the second pass), and each assigned
\* sequence is as long as the variable's axis count.
C10_EveryVariableOnce ==
    Returned =>
        /\ DOMAIN dd_result.variable_dim_info = Range(in_file_info.variable_list)
        /\ \A v \in Range(in_file_info.variable_list) :
               /\ Occurrences(dd_result.vars_to_process_last, v) <= 1
               /\ Len(dd_result.variable_dim_info[v]) = Len(ShapeOf(v))

----------------------------------------------------------------------------
(* Claims about compliance_cleanup (specification SpecCC) *)

\* The catalog as read_hdf4_info returned it, before compliance_cleanup.
RawInfo == files_list[1].info

CleanupCalled == pc = "cc_done"

\* Image_Date and Image_Time are a date and a time of day that exist.
IsLegacyDateTime(g) ==
    /\ IMAGE_DATE_ATTR_NAME \in DOMAIN g
    /\ IMAGE_TIME_ATTR_NAME \in DOMAIN g
    /\ g[IMAGE_DATE_ATTR_NAME].kind = "num"
    /\ g[IMAGE_TIME_ATTR_NAME].kind = "num"
    /\ LET date == g[IMAGE_DATE_ATTR_NAME].n
           time == g[IMAGE_TIME_ATTR_NAME].n
       IN  /\ date >= 0
           /\ date % 1000 \in 1..DaysInYear(1900 + date \div 1000)
           /\ time \div 10000 \in 0..23
           /\ (time \div 100) % 100 \in 0..59
           /\ time % 100 \in 0..59

\* The date and time that a legacy date (years since 1900, then the day of the
\* year) and a legacy time (HHMMSS) stand for.
LegacyDateTime(date, time) ==
    LET year == 1900 + date \div 1000
        day_of_year == date % 1000
        month == CHOOSE m \in 1..12 :
                     /\ DaysBeforeMonth(year, m) < day_of_year
                     /\ day_of_year <= DaysBeforeMonth(year, m) + DaysInMonth(year, m)
    IN  [raised |-> "none", year |-> year, month |-> month,
         day |-> day_of_year - DaysBeforeMonth(year, month),
         hour |-> time \div 10000, minute |-> (time \div 100) % 100,
         second |-> time % 100]

\* C11: for every legacy Image_Date (years since 1900 followed by the
\* three-digit day of the year) and every Image_Time HHMMSS, with or without
\* its leading zeros, compliance_cleanup sets Image_Date_Time to the ISO string
\* of that year, that day of the year and that time, and the global attributes
\* hold neither Image_Date nor Image_Time afterwards.
C11_TimestampOfLegacyDate ==
    (CleanupCalled /\ IsLegacyDateTime(RawInfo.global_attributes)) =>
        LET g == RawInfo.global_attributes
            out == in_file_info.global_attributes
        IN  /\ IMAGE_DATETIME_ATTR_NAME \in DOMAIN out
            /\ out[IMAGE_DATETIME_ATTR_NAME] =
                   Chars(Strftime(LegacyDateTime(g[IMAGE_DATE_ATTR_NAME].n,
                                                 g[IMAGE_TIME_ATTR_NAME].n)))
            /\ IMAGE_DATE_ATTR_NAME \notin DOMAIN out
            /\ IMAGE_TIME_ATTR_NAME \notin DOMAIN out

\* The variables compliance_cleanup keeps.
KeptVars == DOMAIN RawInfo.variable_info \ Range(VARS_TO_DELETE)

RawAttrs(v) == RawInfo.variable_info[v].attributes

CleanAttrs(v) == in_file_info.variable_info[v].attributes

RANGE_ATTR_NAMES == {VALID_RANGE_ATTR_NAME, VALID_MIN_ATTR_NAME, VALID_MAX_ATTR_NAME}

MatchesSome(table, v) == \E i \in 1..Len(table) : ReMatch(table[i].pattern, v)

\* scale_factor is 1.0 and add_offset is 0.0.
UnitScaling(attrs) == NumIs(attrs, "scale_factor", 1) /\ NumIs(attrs, "add_offset", 0)

\* C12: for a variable whose scale_factor is 1.0 and whose add_offset is 0.0,
\* compliance_cleanup completes and the variable's attributes then hold none
\* of scale_factor, add_offset and scaling_method, whether or not it had a
\* scaling_method before, and no range derived from its fill value.
C12_UnitScalingRemoved ==
    CleanupCalled =>
        \A v \in KeptVars :
            UnitScaling(RawAttrs(v)) =>
                /\ raised = "none"
                /\ DOMAIN CleanAttrs(v)
                       \cap {"scale_factor", "add_offset", "scaling_method"} = {}
                /\ ~MatchesSome(RANGE_LIMS_MAP, v) =>
                       DOMAIN CleanAttrs(v) \cap RANGE_ATTR_NAMES = {}

\* scale_factor and add_offset are both present and are not 1.0 and 0.0, and
\* the variable has a fill value.
PackedScaling(attrs) ==
    /\ {"scale_factor", "add_offset", FILL_VALUE_KEY} \subseteq DOMAIN attrs
    /\ ~UnitScaling(attrs)

\* The range of a 16-bit integer with the fill value f left out at its end.
FillRange(f) == IF f <= 0 THEN <<f + 1, 32767>> ELSE <<-32768, f - 1>>

HasRange(attrs, range) ==
    /\ RANGE_ATTR_NAMES \subseteq DOMAIN attrs
    /\ attrs[VALID_RANGE_ATTR_NAME] = List(range)
    /\ attrs[VALID_MIN_ATTR_NAME] = Num(range[1])
    /\ attrs[VALID_MAX_ATTR_NAME] = Num(range[2])

\* C13: for a variable with scale_factor and add_offset that are not 1.0 and
\* 0.0 and with fill value f, compliance_cleanup sets valid_range to
\* [-32768, 32767] with the minimum replaced by f + 1 when f <= 0 and the
\* maximum replaced by f - 1 otherwise, sets valid_min and valid_max to its two
\* ends and keeps the scaling attributes; what is computed for one variable
\* does not change the default range another variable starts from.
C13_RangeFromFillValue ==
    (CleanupCalled /\ raised = "none") =>
        \A v \in KeptVars :
            PackedScaling(RawAttrs(v)) =>
                /\ HasRange(CleanAttrs(v), FillRange(RawAttrs(v)[FILL_VALUE_KEY].n))
                /\ \A k \in DOMAIN RawAttrs(v)
                            \cap {"scale_factor", "add_offset", "scaling_method"} :
                       /\ k \in DOMAIN CleanAttrs(v)
                       /\ CleanAttrs(v)[k] = RawAttrs(v)[k]

\* Two packed variables were cleaned, one with a fill value that is not
\* positive and one with a positive fill value.
C13_Witness ==
    /\ CleanupCalled
    /\ raised = "none"
    /\ \E v, w \in KeptVars :
           /\ PackedScaling(RawAttrs(v))
           /\ PackedScaling(RawAttrs(w))
           /\ RawAttrs(v)[FILL_VALUE_KEY].n <= 0
           /\ RawAttrs(w)[FILL_VALUE_KEY].n > 0
           /\ HasRange(CleanAttrs(v), FillRange(RawAttrs(v)[FILL_VALUE_KEY].n))
           /\ HasRange(CleanAttrs(w), FillRange(RawAttrs(w)[FILL_VALUE_KEY].n))

BadUnits(attrs) ==
    "units" \in DOMAIN attrs /\ attrs["units"] \in {Str("no units"), Str("none")}

\* C14: a variable whose units are exactly "no units" or "none" has no units
\* attribute after compliance_cleanup when it has fewer than two axes and has
\* units "1" when it has two or more; this rule leaves every other value of
\* units as it was.
C14_UnitsOfNoUnits ==
    (CleanupCalled /\ raised = "none") =>
        \A v \in KeptVars :
            LET axes == Len(RawInfo.variable_info[v].shape)
            IN  /\ (BadUnits(RawAttrs(v)) /\ axes < 2) =>
                       "units" \notin DOMAIN CleanAttrs(v)
                /\ (BadUnits(RawAttrs(v)) /\ axes >= 2) =>
                       /\ "units" \in DOMAIN CleanAttrs(v)
                       /\ CleanAttrs(v)["units"] = Str("1")
                /\ (~BadUnits(RawAttrs(v))
                    /\ \A k \in DOMAIN RawAttrs(v) :
                           RawAttrs(v)[k].s \notin DOMAIN CONVERT_ATTRS_MAP) =>
                       /\ "units" \in DOMAIN CleanAttrs(v) <=> "units" \in DOMAIN RawAttrs(v)
                       /\ "units" \in DOMAIN RawAttrs(v) =>
                              CleanAttrs(v)["units"] = RawAttrs(v)["units"]

\* A variable of one axis lost its units and a variable of two axes got "1".
C14_Witness ==
    /\ CleanupCalled
    /\ raised = "none"
    /\ \E v, w \in KeptVars :
           /\ BadUnits(RawAttrs(v))
           /\ Len(RawInfo.variable_info[v].shape) = 1
           /\ "units" \notin DOMAIN CleanAttrs(v)
           /\ BadUnits(RawAttrs(w))
           /\ Len(RawInfo.variable_info[w].shape) = 2
           /\ CleanAttrs(w)["units"] = Str("1")

\* C16: the timestamp rule is the only rule of compliance_cleanup whose failure
\* ends the call: once Image_Date_Time is set, every rule on every variable is
\* applied or skipped, whatever attributes the variable has (scale_factor 1.0
\* and add_offset 0.0 without scaling_method, scale_factor and add_offset
\* without _FillValue), and the call completes.
C16_OnlyTimestampIsFatal ==
    (CleanupCalled
     /\ IMAGE_DATETIME_ATTR_NAME \in DOMAIN in_file_info.global_attributes) =>
        raised = "none"

----------------------------------------------------------------------------
(* Claims about the sink (specification Spec) *)

\* The output files that a call of write_netCDF4_file completed.
WrittenStems == {s \in DOMAIN fs : fs[s].state = "written"}

\* C15: for every variable write_netCDF4_file wrote, the data in the sink are
\* the values read from the source for the variable of the same name, with the
\* same element type; automatic masking and scaling was off when they were
\* written; the fill value was given to the sink as the fill argument of the
\* creation of the variable only, never by the loop that copies attributes.
C15_RawDataWritten ==
    \A s \in WrittenStems :
        LET file == files_list[fs[s].by]
        IN  \A v \in DOMAIN fs[s].variables :
                LET out_var_obj == fs[s].variables[v]
                    raw_attrs == file.info.variable_info[v].attributes
                IN  /\ out_var_obj.data.values = SourceData(file, v).values
                    /\ out_var_obj.data_type = SourceData(file, v).dtype
                    /\ ~out_var_obj.data.converted
                    /\ ~out_var_obj.auto_maskandscale
                    /\ FILL_VALUE_KEY \notin DOMAIN out_var_obj.attributes
                    /\ out_var_obj.fill_value =
                           IF FILL_VALUE_KEY \in DOMAIN raw_attrs
                           THEN {raw_attrs[FILL_VALUE_KEY]} ELSE {}

\* A packed variable with a fill value was written.
C15_Witness ==
    \E s \in WrittenStems : \E v \in DOMAIN fs[s].variables :
        /\ fs[s].variables[v].fill_value # {}
        /\ "scale_factor" \in DOMAIN fs[s].variables[v].attributes
        /\ fs[s].variables[v].data.values = SourceData(files_list[fs[s].by], v).values

\* File i left a file at its output path.
MadeOutput(i) ==
    Logged(i, "written") \/ Logged(i, "write failed") \/ Logged(i, "dd raised")

\* File j is past the check of its output path (lines 543-545).
PathChecked(j) ==
    /\ Logged(j, "cleaned")
    /\ \/ idx > j
       \/ idx = j /\ pc \in {"write", "close", "loop", "returned"}

\* C17: when two files of the batch have the same output path and the first
\* left an output there, the conversion of the second is reported as a
\* conflict: a warning is given and the status of the batch is not zero from
\* then on, so the first output is never replaced with a status of zero.
C17_SamePathIsConflict ==
    \A i, j \in FileIndexes :
        (i < j /\ files_list[i].stem = files_list[j].stem
         /\ MadeOutput(i) /\ PathChecked(j)) =>
            /\ Logged(j, "output existed")
            /\ code_to_return # 0

\* The batch returned after the second of two files of the same output path
\* replaced the output of the first.
C17_Witness ==
    /\ pc = "returned"
    /\ \E i, j \in FileIndexes :
           /\ i < j
           /\ files_list[i].stem = files_list[j].stem
           /\ Logged(i, "written")
           /\ Logged(j, "output existed")
           /\ Logged(j, "written")
           /\ fs[files_list[j].stem].by = j
           /\ code_to_return = 3

\* C18: for each file the sink is opened or created after the dimension
\* resolver returned successfully (open the source, rewrite the metadata,
\* resolve the dimensions, create the sink, stream, release): a file for which
\* determine_dimensions raised has created or replaced nothing at its output
\* path.
C18_SinkAfterDimensions ==
    \A s \in DOMAIN fs :
        fs[s].by \in FileIndexes => ~Logged(fs[s].by, "dd raised")

\* The first entry of a rule table, in the order the table is iterated in, whose
\* pattern matches the name.
FirstMatch(table, order, v) ==
    LET keys == KeysOf(table, order)
        i == CHOOSE i \in 1..Len(keys) :
                 /\ ReMatch(keys[i].pattern, v)
                 /\ \A j \in 1..(i - 1) : ~ReMatch(keys[i - j].pattern, v)
    IN  keys[i]

MatchCount(table, v) ==
    Cardinality({i \in 1..Len(table) : ReMatch(table[i].pattern, v)})

\* C19: a variable whose name matches several patterns of a rule table is
\* handled by the first matching pattern in the order of iteration only: the
\* rule is applied once and its result is that of the first match (as for
\* "calibration_slope" and "calibration_slope_degrade" in the table of long
\* names).
C19_FirstMatchWins ==
    (CleanupCalled /\ raised = "none") =>
        \A v \in KeptVars :
            (MatchCount(LONG_NAME_MAP, v) >= 1
             /\ \A i \in 1..Len(LONG_NAME_MAP) :
                    LONG_NAME_MAP[i].pattern \notin CHANNEL_DATA_PATTERNS
                    \/ ~ReMatch(LONG_NAME_MAP[i].pattern, v)) =>
                CleanAttrs(v)[LONG_NAME_ATTR_NAME] =
                    Str(FirstMatch(LONG_NAME_MAP, keys_order, v).long_name)

FLAG_ATTR_NAMES == {FLAG_VALS_ATTR_NAME, FLAG_MEANINGS_ATTR_NAME}

\* C20: after compliance_cleanup, a variable whose range was derived from its
\* fill value has that range in valid_range, valid_min and valid_max, even when
\* its name matches a pattern of the range limits, and got no flag_values or
\* flag_meanings; a variable whose range was not derived from a fill value has
\* the three range attributes of the static table when its name matches a
\* range pattern, and flag_values and flag_meanings of equal length when its
\* name matches a flag pattern; long_name is set for a matching name in both
\* cases.
C20_FillRangeIsKept ==
    (CleanupCalled /\ raised = "none") =>
        \A v \in KeptVars :
            /\ MatchesSome(LONG_NAME_MAP, v) =>
                   LONG_NAME_ATTR_NAME \in DOMAIN CleanAttrs(v)
            /\ PackedScaling(RawAttrs(v)) =>
                   /\ HasRange(CleanAttrs(v), FillRange(RawAttrs(v)[FILL_VALUE_KEY].n))
                   /\ DOMAIN CleanAttrs(v) \cap FLAG_ATTR_NAMES =
                          DOMAIN RawAttrs(v) \cap FLAG_ATTR_NAMES
            /\ ~PackedScaling(RawAttrs(v)) =>
                   /\ MatchesSome(RANGE_LIMS_MAP, v) =>
                          \E i \in 1..Len(RANGE_LIMS_MAP) :
                              /\ ReMatch(RANGE_LIMS_MAP[i].pattern, v)
                              /\ HasRange(CleanAttrs(v), RANGE_LIMS_MAP[i].range)
                   /\ MatchesSome(FLAG_INFO_MAP, v) =>
                          \E i \in 1..Len(FLAG_INFO_MAP) :
                              /\ ReMatch(FLAG_INFO_MAP[i].pattern, v)
                              /\ FLAG_ATTR_NAMES \subseteq DOMAIN CleanAttrs(v)
                              /\ CleanAttrs(v)[FLAG_VALS_ATTR_NAME] =
                                     List(FLAG_INFO_MAP[i].flag_values)
                              /\ CleanAttrs(v)[FLAG_MEANINGS_ATTR_NAME] =
                                     Strs(FLAG_INFO_MAP[i].flag_meanings)
                              /\ Len(CleanAttrs(v)[FLAG_VALS_ATTR_NAME].l) =
                                     Len(CleanAttrs(v)[FLAG_MEANINGS_ATTR_NAME].sl)

\* A packed variable whose name matches a range pattern kept the range of its
\* fill value, and a variable that is not packed got range and flags from the
\* tables.
C20_Witness ==
    /\ CleanupCalled
    /\ raised = "none"
    /\ \E v, w \in KeptVars :
           /\ PackedScaling(RawAttrs(v))
           /\ MatchesSome(RANGE_LIMS_MAP, v)
           /\ HasRange(CleanAttrs(v), FillRange(RawAttrs(v)[FILL_VALUE_KEY].n))
           /\ LONG_NAME_ATTR_NAME \in DOMAIN CleanAttrs(v)
           /\ ~PackedScaling(RawAttrs(w))
           /\ MatchesSome(RANGE_LIMS_MAP, w)
           /\ MatchesSome(FLAG_INFO_MAP, w)
           /\ FLAG_ATTR_NAMES \subseteq DOMAIN CleanAttrs(w)
           /\ RANGE_ATTR_NAMES \subseteq DOMAIN CleanAttrs(w)

----------------------------------------------------------------------------
(* Claims about the special variables (specification SpecDD) *)

\* The entry of SPECIAL_VARIABLES the second pass resolves a special variable
\* with: the last one, in the order of iteration, whose pattern matches.
ResolvingRule(v) ==
    LET keys == KeysOf(SPECIAL_VARIABLES, keys_order)
        hits == {i \in 1..Len(keys) : ReMatch(keys[i].pattern, v)}
    IN  keys[CHOOSE i \in hits : \A j \in hits : j <= i]

\* The table of dimensions when the second pass begins.
DimensionsAfterFirstPass == FirstPass(in_file_info, 1, DDStart).dimensions

\* C21: when a special variable is resolved and an axis of its rule has the
\* inherit size (None) while the dimension of that axis is not in the table
\* yet, determine_dimensions registers the dimension with the size of the
\* variable's raw axis, so the sizes of the table are taken from the data; and
\* a fixed size of a rule (3, 7, 6) is accepted only when the raw axis has that
\* size.
C21_InheritedSizeFromData ==
    (Returned /\ dd_result.vars_to_process_last # <<>>
     /\ IsSpecial(dd_result.vars_to_process_last[1])) =>
        LET v == dd_result.vars_to_process_last[1]
            rule == ResolvingRule(v)
        IN  \A a \in Axes(v) :
                /\ (rule.sizes[a] = None
                    /\ rule.names[a] \notin DOMAIN DimensionsAfterFirstPass) =>
                       dd_result.dimensions[rule.names[a]] = ShapeOf(v)[a]
                /\ rule.sizes[a] # None => ShapeOf(v)[a] = rule.sizes[a]

====
